---- MODULE Spec2Model ----
(***************************************************************************)
(* Model of the audio streaming engine of fish-audio-go:                   *)
(*   - AudioStream           (audio_stream.go): chunked reads of one HTTP  *)
(*                            response body;                               *)
(*   - TTSService.StreamWebSocket and WebSocketAudioStream: the duplex     *)
(*                            session with its send goroutine, its         *)
(*                            receive goroutine and the caller.            *)
(* One behaviour follows one stream object; impl says which of the two     *)
(* implementations it is.                                                  *)
(***************************************************************************)
EXTENDS Integers, Sequences, FiniteSets, TLC

\* ---------------------------------------------------------------- bounds
\* capacity of audioChan (100 in the source), scaled down
AudioCap == 2
\* number of non-terminal frames the server sends before it must end
MaxFrames == 2
\* number of fragments the caller's text source can offer
MaxText == 1
\* longest buffer handed to Read
MaxBuf == 1
\* chunkSize of AudioStream (4096 in the source), scaled down
chunkSize == 2

\* ---------------------------------------------------------------- values
NoErr == "nil"
ErrFinish == "stream finished with error"
ErrRead == "read failed"
ErrDecode == "failed to decode response"
ErrMarshalText == "failed to marshal text event"
ErrSendText == "failed to send text"
ErrBody == "body read failed"
EOF == "EOF"

\* payloads the i-th frame of the server can carry when it is an audio
\* frame: none, or bytes that no other frame carries
Payloads(i) == {<< >>, IF i % 2 = 1 THEN <<10 * i>> ELSE <<10 * i, 10 * i + 1>>}
\* bodies of the HTTP response
Bodies == {<< >>, <<1>>, <<1, 2, 3>>}
BufLens == 0..MaxBuf

Min(a, b) == IF a < b THEN a ELSE b
Take(s, n) == SubSeq(s, 1, Min(n, Len(s)))
Drop(s, n) == SubSeq(s, Min(n, Len(s)) + 1, Len(s))
Zeros(n) == [i \in 1..n |-> 0]

VARIABLES
  impl,         \* "ws" or "http": which implementation the stream object is
  \* --- fields shared by AudioStream and WebSocketAudioStream
  buf, err, closed,
  \* --- AudioStream: the response body
  body,         \* bytes the body has not returned yet
  bodyFault,    \* "none": the body's reads never fail; "latent": a read
                \* may fail; "raised": a read has failed, and so do all
                \* reads after it
  bodyCloses,   \* number of resp.Body.Close() calls
  \* --- StreamWebSocket
  sws,          \* "init", "error" (returned nil, err) or "stream"
  conn,         \* "none", "open", "closed"
  connCloses,   \* number of conn.Close() calls
  chans,        \* TRUE once audioChan, errChan, doneChan are made
  audioChan, audioClosed, errChan, doneClosed,
  textChan,     \* "open" or "closed"
  textNext,     \* index of the next fragment of the text source
  sendPc, sendCur, txFault,
  recvPc, recvCur, frames,
  \* --- the caller
  callerPc,     \* "idle", "collect" (inside WebSocketAudioStream.Collect),
                \* "next" or "read" (inside Next or Read, holding the
                \* mutex and waiting in the select)
  ret,          \* the last call and what it returned; tick is 1 for the
                \* first call on the stream, then 2 and 3 in turn
  prior,        \* what has happened so far: "closed" (Close was called),
                \* "ended" (a Next returned false), "cancelled" (the
                \* context given to StreamWebSocket was cancelled)
  \* --- history
  delivered,    \* bytes of the chunks put on audioChan / returned by body
  handed,       \* bytes handed to the caller by Next and Read, in order
  rxEnd,        \* the inbound event that ended the receive loop
  wire          \* messages written on the connection, in order

streamVars == <<buf, err, closed>>
bodyVars == <<body, bodyFault, bodyCloses>>
setupVars == <<sws, chans>>
connVars == <<conn, connCloses>>
chanVars == <<audioChan, audioClosed, errChan, doneClosed>>
textVars == <<textChan, textNext>>
sendVars == <<sendPc, sendCur, txFault>>
recvVars == <<recvPc, recvCur, frames>>
callerVars == <<callerPc, ret, prior>>
histVars == <<delivered, handed, rxEnd, wire>>

vars == <<impl, streamVars, bodyVars, setupVars, connVars, chanVars, textVars,
          sendVars, recvVars, callerVars, histVars>>

NoRet == [op |-> "none", tick |-> 0, ok |-> FALSE, data |-> << >>, e |-> NoErr]

Init ==
  /\ impl \in {"ws", "http"}
  /\ buf = << >> /\ err = NoErr /\ closed = FALSE
  /\ body \in (IF impl = "http" THEN Bodies ELSE {<< >>})
  /\ bodyFault \in (IF impl = "http" THEN {"none", "latent"} ELSE {"none"})
  /\ bodyCloses = 0
  /\ sws = "init" /\ conn = "none" /\ connCloses = 0 /\ chans = FALSE
  /\ audioChan = << >> /\ audioClosed = FALSE /\ errChan = << >>
  /\ doneClosed = FALSE
  /\ textChan = "open" /\ textNext = 1
  /\ sendPc = "off" /\ sendCur = 0 /\ txFault = "none"
  /\ recvPc = "off" /\ recvCur = << >> /\ frames = 0
  /\ callerPc = "idle" /\ ret = NoRet /\ prior = {}
  /\ delivered = << >> /\ handed = << >> /\ rxEnd = "none" /\ wire = << >>

\* ------------------------------------------------------- StreamWebSocket
Msg(ev, arg) == [ev |-> ev, arg |-> arg]

\* StreamWebSocket returning its error without closing the connection
StreamWebSocketLeaksConn ==
  /\ impl = "ws" /\ sws = "init"
  /\ \E outcome \in {"dial", "marshal", "write", "ok"} :
       \/ /\ outcome = "dial"
          /\ sws' = "error"
          /\ UNCHANGED <<conn, connCloses, chans, sendPc, recvPc>>
       \/ /\ outcome \in {"marshal", "write"}
          /\ sws' = "error"
          /\ conn' = "open"
          /\ UNCHANGED <<connCloses, chans, sendPc, recvPc>>
       \/ /\ outcome = "ok"
          /\ sws' = "stream"
          /\ conn' = "open"
          /\ chans' = TRUE
          /\ sendPc' = "select" /\ recvPc' = "read"
          /\ UNCHANGED connCloses
  /\ UNCHANGED <<impl, streamVars, bodyVars, chanVars, textVars, sendCur,
                 txFault, recvCur, frames, callerVars>>

\* StreamWebSocket: dial, marshal and write the start event, make the
\* channels, start the two goroutines.  outcome is what the environment
\* lets happen: the dial fails, the marshal fails, the write fails, or all
\* succeed.
StreamWebSocket ==
  /\ impl = "ws" /\ sws = "init"
  /\ \E outcome \in {"dial", "marshal", "write", "ok"} :
       \/ /\ outcome = "dial"
          /\ sws' = "error"
          /\ UNCHANGED <<conn, connCloses, chans, sendPc, recvPc>>
       \/ /\ outcome \in {"marshal", "write"}
          /\ sws' = "error"
          /\ conn' = "closed" /\ connCloses' = connCloses + 1
          /\ UNCHANGED <<chans, sendPc, recvPc>>
       \/ /\ outcome = "ok"
          /\ sws' = "stream"
          /\ conn' = "open"
          /\ chans' = TRUE
          /\ sendPc' = "select" /\ recvPc' = "read"
          /\ UNCHANGED connCloses
  /\ UNCHANGED <<impl, streamVars, bodyVars, chanVars, textVars, sendCur,
                 txFault, recvCur, frames, callerVars>>

\* ------------------------------------------------- the caller's textChan
\* the caller closes textChan
TextClose ==
  /\ impl = "ws" /\ textChan = "open"
  /\ textChan' = "closed"
  /\ UNCHANGED <<impl, streamVars, bodyVars, setupVars, connVars, chanVars,
                 textNext, sendVars, recvVars, callerVars>>

\* ------------------------------------------------------- send goroutine
\* errChan <- e with a default case: dropped when the slot is taken
Publish(ch, e) == IF Len(ch) < 1 THEN Append(ch, e) ELSE ch

\* a fragment taken from textChan and dropped
SendTakeSkips(limit) ==
  /\ sendPc = "select" /\ textChan = "open" /\ textNext <= limit
  /\ textNext' = textNext + 1 /\ UNCHANGED textChan
  /\ \/ /\ sendPc' = "write" /\ sendCur' = textNext
        /\ UNCHANGED txFault
     \/ /\ sendPc' = "select" /\ sendCur' = 0
        /\ UNCHANGED txFault
  /\ UNCHANGED <<impl, streamVars, bodyVars, setupVars, connVars, chanVars,
                 recvVars, callerVars>>

\* select: the caller sends the next fragment on textChan; it is
\* marshalled.  The caller's text source has at most limit fragments.
SendTakeUpTo(limit) ==
  /\ sendPc = "select" /\ textChan = "open" /\ textNext <= limit
  /\ textNext' = textNext + 1 /\ UNCHANGED textChan
  /\ \/ /\ sendPc' = "write" /\ sendCur' = textNext
        /\ UNCHANGED txFault
     \/ /\ sendPc' = "pub" /\ sendCur' = 0
        /\ txFault' = "marshal"
  /\ UNCHANGED <<impl, streamVars, bodyVars, setupVars, connVars, chanVars,
                 recvVars, callerVars>>

SendTake == SendTakeUpTo(MaxText)

\* the send goroutine leaving its loop whatever the channels' state
SendReturnUnasked ==
  /\ sendPc = "select"
  /\ sendPc' = "stop"
  /\ UNCHANGED <<impl, streamVars, bodyVars, setupVars, connVars, chanVars,
                 textVars, sendCur, txFault, recvVars, callerVars>>

\* the select without its doneChan case
SendReturnIgnoresDone ==
  /\ sendPc = "select"
  /\ textChan = "closed"
  /\ sendPc' = "stop"
  /\ UNCHANGED <<impl, streamVars, bodyVars, setupVars, connVars, chanVars,
                 textVars, sendCur, txFault, recvVars, callerVars>>

\* select: textChan is closed, or doneChan is closed: return
SendReturn ==
  /\ sendPc = "select"
  /\ textChan = "closed" \/ doneClosed
  /\ sendPc' = "stop"
  /\ UNCHANGED <<impl, streamVars, bodyVars, setupVars, connVars, chanVars,
                 textVars, sendCur, txFault, recvVars, callerVars>>

\* the write of the text event waiting for room in audioChan
SendWriteWaitsForQueue ==
  /\ sendPc = "write" /\ Len(audioChan) < AudioCap
  /\ \/ /\ conn = "open"
        /\ sendPc' = "select"
        /\ UNCHANGED txFault
     \/ /\ conn = "open"
        /\ sendPc' = "pub" /\ txFault' = "write"
     \/ /\ conn = "closed"
        /\ sendPc' = "pub"
        /\ UNCHANGED txFault
  /\ sendCur' = 0
  /\ UNCHANGED <<impl, streamVars, bodyVars, setupVars, connVars, chanVars,
                 textVars, recvVars, callerVars>>

\* conn.WriteMessage of the text event: fails on a closed connection and
\* may fail on an open one
SendWrite ==
  /\ sendPc = "write"
  /\ \/ /\ conn = "open"
        /\ sendPc' = "select"
        /\ UNCHANGED txFault
     \/ /\ conn = "open"
        /\ sendPc' = "pub" /\ txFault' = "write"
     \/ /\ conn = "closed"
        /\ sendPc' = "pub"
        /\ UNCHANGED txFault
  /\ sendCur' = 0
  /\ UNCHANGED <<impl, streamVars, bodyVars, setupVars, connVars, chanVars,
                 textVars, recvVars, callerVars>>

\* the failure is offered to errChan, then the goroutine returns
SendPublish ==
  /\ sendPc = "pub"
  /\ errChan' = Publish(errChan,
                  IF txFault = "marshal" THEN ErrMarshalText ELSE ErrSendText)
  /\ sendPc' = "stop"
  /\ UNCHANGED <<impl, streamVars, bodyVars, setupVars, connVars, audioChan,
                 audioClosed, doneClosed, textVars, sendCur, txFault,
                 recvVars, callerVars>>

\* the deferred function returning into the loop
SendStopLoops ==
  /\ sendPc = "stop"
  /\ sendPc' = "select"
  /\ UNCHANGED <<impl, streamVars, bodyVars, setupVars, connVars, chanVars,
                 textVars, sendCur, txFault, recvVars, callerVars>>

\* the deferred function closing the connection after the stop event
SendStopClosesConn ==
  /\ sendPc = "stop"
  /\ sendPc' = "done"
  /\ conn' = "closed" /\ connCloses' = connCloses + 1
  /\ UNCHANGED <<impl, streamVars, bodyVars, setupVars, chanVars,
                 textVars, sendCur, txFault, recvVars, callerVars>>

\* the deferred function: the stop event is written, its result ignored
SendStop ==
  /\ sendPc = "stop"
  /\ sendPc' = "done"
  /\ UNCHANGED <<impl, streamVars, bodyVars, setupVars, connVars, chanVars,
                 textVars, sendCur, txFault, recvVars, callerVars>>

\* ---------------------------------------------------- receive goroutine
\* what one conn.ReadMessage and the decoding of its result can give
Inbound ==
  {[k |-> "audio", p |-> p] : p \in Payloads(frames + 1)}
    \cup {[k |-> k, p |-> << >>] :
            k \in {"other", "finish_stop", "finish_error", "close_normal",
                   "read_error", "decode_error"}}

Terminal(f) == f.k \notin {"audio", "other"}

\* the loop sending an empty payload to audioChan as well
RecvReadQueuesEmpty(f, limit) ==
  /\ recvPc = "read"
  /\ Terminal(f) \/ frames < limit
  /\ frames' = IF Terminal(f) THEN frames ELSE frames + 1
  /\ CASE f.k = "audio" ->
            recvPc' = "enq" /\ recvCur' = f.p
       [] f.k = "other" ->
            recvPc' = "read" /\ recvCur' = << >>
       [] f.k \in {"finish_stop", "close_normal"} ->
            recvPc' = "closeDone" /\ recvCur' = << >>
       [] f.k = "finish_error" ->
            recvPc' = "pub" /\ recvCur' = <<ErrFinish>>
       [] f.k = "read_error" ->
            recvPc' = "pub" /\ recvCur' = <<ErrRead>>
       [] f.k = "decode_error" ->
            recvPc' = "pub" /\ recvCur' = <<ErrDecode>>
  /\ UNCHANGED <<impl, streamVars, bodyVars, setupVars, connVars, chanVars,
                 textVars, sendVars, callerVars>>

\* one turn of the loop up to its channel operation, f being what
\* conn.ReadMessage and the decoding give; the server sends at most limit
\* frames before the one that ends the loop
RecvReadWithin(f, limit) ==
  /\ recvPc = "read"
  /\ Terminal(f) \/ frames < limit
  /\ frames' = IF Terminal(f) THEN frames ELSE frames + 1
  /\ CASE f.k = "audio" /\ Len(f.p) > 0 ->
            recvPc' = "enq" /\ recvCur' = f.p
       [] f.k = "audio" /\ Len(f.p) = 0 ->
            recvPc' = "read" /\ recvCur' = << >>
       [] f.k = "other" ->
            recvPc' = "read" /\ recvCur' = << >>
       [] f.k \in {"finish_stop", "close_normal"} ->
            recvPc' = "closeDone" /\ recvCur' = << >>
       [] f.k = "finish_error" ->
            recvPc' = "pub" /\ recvCur' = <<ErrFinish>>
       [] f.k = "read_error" ->
            recvPc' = "pub" /\ recvCur' = <<ErrRead>>
       [] f.k = "decode_error" ->
            recvPc' = "pub" /\ recvCur' = <<ErrDecode>>
  /\ UNCHANGED <<impl, streamVars, bodyVars, setupVars, connVars, chanVars,
                 textVars, sendVars, callerVars>>

RecvRead(f) == RecvReadWithin(f, MaxFrames)

\* audioChan <- resp.Audio: blocks while the channel is full
RecvEnqueue ==
  /\ recvPc = "enq" /\ Len(audioChan) < AudioCap
  /\ audioChan' = Append(audioChan, recvCur)
  /\ recvPc' = "read" /\ recvCur' = << >>
  /\ UNCHANGED <<impl, streamVars, bodyVars, setupVars, connVars, audioClosed,
                 errChan, doneClosed, textVars, sendVars, frames,
                 callerVars>>

\* the error is offered to errChan, then the goroutine returns
RecvPublish ==
  /\ recvPc = "pub"
  /\ errChan' = Publish(errChan, recvCur[1])
  /\ recvPc' = "closeDone" /\ recvCur' = << >>
  /\ UNCHANGED <<impl, streamVars, bodyVars, setupVars, connVars, audioChan,
                 audioClosed, doneClosed, textVars, sendVars, frames,
                 callerVars>>

\* the deferred calls, last registered first: close(doneChan)
RecvCloseDone ==
  /\ recvPc = "closeDone"
  /\ doneClosed' = TRUE
  /\ recvPc' = "closeConn"
  /\ UNCHANGED <<impl, streamVars, bodyVars, setupVars, connVars, audioChan,
                 audioClosed, errChan, textVars, sendVars, recvCur, frames, callerVars>>

\* conn.Close()
RecvCloseConn ==
  /\ recvPc = "closeConn"
  /\ conn' = "closed" /\ connCloses' = connCloses + 1
  /\ recvPc' = "closeAudio"
  /\ UNCHANGED <<impl, streamVars, bodyVars, setupVars, chanVars,
                 textVars, sendVars, recvCur, frames, callerVars>>

\* close(audioChan)
RecvCloseAudio ==
  /\ recvPc = "closeAudio"
  /\ audioClosed' = TRUE
  /\ recvPc' = "done"
  /\ UNCHANGED <<impl, streamVars, bodyVars, setupVars, connVars, audioChan,
                 errChan, doneClosed, textVars, sendVars, recvCur, frames, callerVars>>

\* ------------------------------------------------------------ the caller
Tick == IF ret.tick = 0 THEN 1 ELSE IF ret.tick = 2 THEN 3 ELSE 2
Ret(op, ok, data, e) ==
  [op |-> op, tick |-> Tick, ok |-> ok, data |-> data, e |-> e]
Called(r) ==
  /\ ret' = r
  /\ prior' = prior \cup (IF r.op = "Close" THEN {"closed"} ELSE {})
                     \cup (IF r.op = "Next" /\ ~r.ok THEN {"ended"} ELSE {})
HasStream == (impl = "http") \/ (impl = "ws" /\ sws = "stream")

\* ------------------------------------------------ WebSocketAudioStream
\* Next without the test of s.closed
WSNextIgnoresClosed(ok) ==
  IF err # NoErr
  THEN /\ ok = FALSE
       /\ UNCHANGED <<buf, err, closed, audioChan, errChan>>
  ELSE \/ /\ Len(audioChan) > 0
          /\ buf' = Head(audioChan) /\ audioChan' = Tail(audioChan)
          /\ ok = TRUE
          /\ UNCHANGED <<err, closed, errChan>>
       \/ /\ Len(audioChan) = 0 /\ audioClosed
          /\ closed' = TRUE
          /\ ok = FALSE
          /\ UNCHANGED <<buf, err, audioChan, errChan>>
       \/ /\ Len(errChan) > 0
          /\ err' = Head(errChan) /\ errChan' = Tail(errChan)
          /\ ok = FALSE
          /\ UNCHANGED <<buf, closed, audioChan>>

\* Next storing the zero value it received from the closed audioChan
WSNextStoresNil(ok) ==
  IF closed \/ err # NoErr
  THEN /\ ok = FALSE
       /\ UNCHANGED <<buf, err, closed, audioChan, errChan>>
  ELSE \/ /\ Len(audioChan) > 0
          /\ buf' = Head(audioChan) /\ audioChan' = Tail(audioChan)
          /\ ok = TRUE
          /\ UNCHANGED <<err, closed, errChan>>
       \/ /\ Len(audioChan) = 0 /\ audioClosed
          /\ closed' = TRUE /\ buf' = << >>
          /\ ok = FALSE
          /\ UNCHANGED <<err, audioChan, errChan>>
       \/ /\ Len(errChan) > 0
          /\ err' = Head(errChan) /\ errChan' = Tail(errChan)
          /\ ok = FALSE
          /\ UNCHANGED <<buf, closed, audioChan>>

\* WebSocketAudioStream.Next: ok is the value it returns.  The call blocks
\* (is not enabled) while neither channel is ready.
WSNext(ok) ==
  IF closed \/ err # NoErr
  THEN /\ ok = FALSE
       /\ UNCHANGED <<buf, err, closed, audioChan, errChan>>
  ELSE \/ /\ Len(audioChan) > 0
          /\ buf' = Head(audioChan) /\ audioChan' = Tail(audioChan)
          /\ ok = TRUE
          /\ UNCHANGED <<err, closed, errChan>>
       \/ /\ Len(audioChan) = 0 /\ audioClosed
          /\ closed' = TRUE
          /\ ok = FALSE
          /\ UNCHANGED <<buf, err, audioChan, errChan>>
       \/ /\ Len(errChan) > 0
          /\ err' = Head(errChan) /\ errChan' = Tail(errChan)
          /\ ok = FALSE
          /\ UNCHANGED <<buf, closed, audioChan>>

WSNextCall ==
  /\ impl = "ws" /\ HasStream /\ callerPc = "idle"
  /\ \E ok \in BOOLEAN :
       /\ WSNext(ok)
       /\ Called(Ret("Next", ok, << >>, NoErr))
  /\ UNCHANGED <<impl, bodyVars, setupVars, connVars, audioClosed, doneClosed,
                 textVars, sendVars, recvVars, callerPc>>

\* WebSocketAudioStream.Read(p) with len(p) = n
ReadReturns(out, e) == Called(Ret("Read", e = NoErr, out, e))

\* Read forgetting the part of a new chunk that does not fit in p
WSReadDropsRemainder(n) ==
  IF Len(buf) > 0
  THEN /\ ReadReturns(Take(buf, n), NoErr)
       /\ buf' = Drop(buf, n)
       /\ UNCHANGED <<err, audioChan, errChan>>
  ELSE \/ /\ Len(audioChan) > 0
          /\ ReadReturns(Take(Head(audioChan), n), NoErr)
          /\ buf' = buf
          /\ audioChan' = Tail(audioChan)
          /\ UNCHANGED <<err, errChan>>
       \/ /\ Len(audioChan) = 0 /\ audioClosed
          /\ ReadReturns(<< >>, EOF)
          /\ UNCHANGED <<buf, err, audioChan, errChan>>
       \/ /\ Len(errChan) > 0
          /\ ReadReturns(<< >>, Head(errChan))
          /\ err' = Head(errChan) /\ errChan' = Tail(errChan)
          /\ UNCHANGED <<buf, audioChan>>

WSRead(n) ==
  IF Len(buf) > 0
  THEN /\ ReadReturns(Take(buf, n), NoErr)
       /\ buf' = Drop(buf, n)
       /\ UNCHANGED <<err, audioChan, errChan>>
  ELSE \/ /\ Len(audioChan) > 0
          /\ ReadReturns(Take(Head(audioChan), n), NoErr)
          /\ buf' = IF n < Len(Head(audioChan))
                    THEN Drop(Head(audioChan), n) ELSE buf
          /\ audioChan' = Tail(audioChan)
          /\ UNCHANGED <<err, errChan>>
       \/ /\ Len(audioChan) = 0 /\ audioClosed
          /\ ReadReturns(<< >>, EOF)
          /\ UNCHANGED <<buf, err, audioChan, errChan>>
       \/ /\ Len(errChan) > 0
          /\ ReadReturns(<< >>, Head(errChan))
          /\ err' = Head(errChan) /\ errChan' = Tail(errChan)
          /\ UNCHANGED <<buf, audioChan>>

WSReadCall ==
  /\ impl = "ws" /\ HasStream /\ callerPc = "idle"
  /\ \E n \in BufLens : WSRead(n)
  /\ UNCHANGED <<impl, closed, bodyVars, setupVars, connVars, audioClosed,
                 doneClosed, textVars, sendVars, recvVars, callerPc>>

\* WebSocketAudioStream.Close
WSClose ==
  /\ closed' = TRUE
  /\ UNCHANGED <<buf, err>>

WSCloseCall ==
  /\ impl = "ws" /\ HasStream /\ callerPc = "idle"
  /\ WSClose
  /\ Called(Ret("Close", TRUE, << >>, NoErr))
  /\ UNCHANGED <<impl, bodyVars, setupVars, connVars, chanVars, textVars,
                 sendVars, recvVars, callerPc>>

\* WebSocketAudioStream.Collect: entry; ret.data is its bytes.Buffer
WSCollectCall ==
  /\ impl = "ws" /\ HasStream /\ callerPc = "idle"
  /\ callerPc' = "collect"
  /\ Called(Ret("Collect", FALSE, << >>, NoErr))
  /\ UNCHANGED <<impl, streamVars, bodyVars, setupVars, connVars, chanVars,
                 textVars, sendVars, recvVars>>

\* one s.Next() of Collect's loop, and the return when it yields false
WSCollectStep ==
  /\ impl = "ws" /\ callerPc = "collect"
  /\ \E ok \in BOOLEAN :
       /\ WSNext(ok)
       /\ IF ok
          THEN /\ ret' = [ret EXCEPT !.data = ret.data \o buf']
               /\ callerPc' = "collect"
          ELSE /\ ret' = [ret EXCEPT !.ok = TRUE,
                            !.data = IF err' # NoErr THEN << >> ELSE ret.data,
                            !.e = err']
               /\ callerPc' = "idle"
       /\ prior' = IF ok THEN prior ELSE prior \cup {"ended"}
  /\ UNCHANGED <<impl, bodyVars, setupVars, connVars, audioClosed, doneClosed,
                 textVars, sendVars, recvVars>>

\* Next and Read seen from a second goroutine of the caller: the call locks
\* s.mu and, when neither channel is ready, waits in its select with the
\* mutex held; it goes on when a channel is ready.
NoneReady == audioChan = << >> /\ ~audioClosed /\ errChan = << >>

WSNextBlock ==
  /\ impl = "ws" /\ HasStream /\ callerPc = "idle"
  /\ ~closed /\ err = NoErr /\ NoneReady
  /\ callerPc' = "next"
  /\ UNCHANGED <<impl, streamVars, bodyVars, setupVars, connVars, chanVars,
                 textVars, sendVars, recvVars, ret, prior>>

WSNextWake ==
  /\ impl = "ws" /\ callerPc = "next"
  /\ \E ok \in BOOLEAN :
       /\ WSNext(ok)
       /\ Called(Ret("Next", ok, << >>, NoErr))
  /\ callerPc' = "idle"
  /\ UNCHANGED <<impl, bodyVars, setupVars, connVars, audioClosed, doneClosed,
                 textVars, sendVars, recvVars>>

WSReadBlock ==
  /\ impl = "ws" /\ HasStream /\ callerPc = "idle"
  /\ Len(buf) = 0 /\ NoneReady
  /\ callerPc' = "read"
  /\ UNCHANGED <<impl, streamVars, bodyVars, setupVars, connVars, chanVars,
                 textVars, sendVars, recvVars, ret, prior>>

WSReadWake ==
  /\ impl = "ws" /\ callerPc = "read"
  /\ \E n \in BufLens : WSRead(n)
  /\ callerPc' = "idle"
  /\ UNCHANGED <<impl, closed, bodyVars, setupVars, connVars, audioClosed,
                 doneClosed, textVars, sendVars, recvVars>>

\* the caller cancels the context it gave to StreamWebSocket, after the
\* stream was returned: the context was used for the dial only, nothing of
\* the session refers to it
CtxCancel ==
  /\ impl = "ws" /\ sws = "stream" /\ "cancelled" \notin prior
  /\ prior' = prior \cup {"cancelled"}
  /\ UNCHANGED <<impl, streamVars, bodyVars, setupVars, connVars, chanVars,
                 textVars, sendVars, recvVars, callerPc, ret>>

\* ---------------------------------------------------------- AudioStream
\* what one resp.Body.Read(p) with len(p) = n can return: k bytes and an
\* error.  A read of a closed body fails, and so does a read after a failed
\* one; end-of-input may come with the last bytes or on the read after them.
BodyReads(n) ==
  IF bodyCloses > 0 \/ bodyFault = "raised"
  THEN {[k |-> 0, e |-> ErrBody]}
  ELSE LET m == Min(n, Len(body)) IN
       {[k |-> k, e |-> NoErr] : k \in (IF n = 0 THEN {0} ELSE 1..m)}
         \cup {[k |-> k, e |-> EOF] : k \in {j \in 0..m : j = Len(body)}}
         \cup {[k |-> k, e |-> ErrBody] :
                 k \in {j \in 0..m : bodyFault = "latent"}}

BodyAfter(r) == IF r.e = ErrBody THEN "raised" ELSE bodyFault

\* AudioStream.Next: ok is the value it returns
ASNext(ok) ==
  IF closed \/ err # NoErr
  THEN /\ ok = FALSE
       /\ UNCHANGED <<buf, err, closed, body, bodyFault>>
  ELSE \E r \in BodyReads(chunkSize) :
         /\ body' = Drop(body, r.k) /\ bodyFault' = BodyAfter(r)
         /\ IF r.e = NoErr
            THEN /\ buf' = Take(body, r.k)
                 /\ ok = TRUE
                 /\ UNCHANGED <<err, closed>>
            ELSE /\ buf' = Take(body, r.k) \o Zeros(chunkSize - r.k)
                 /\ ok = FALSE
                 /\ IF r.e = EOF
                    THEN closed' = TRUE /\ UNCHANGED err
                    ELSE err' = r.e /\ UNCHANGED closed

ASNextCall ==
  /\ impl = "http" /\ callerPc = "idle"
  /\ \E ok \in BOOLEAN :
       /\ ASNext(ok)
       /\ Called(Ret("Next", ok, << >>, NoErr))
  /\ UNCHANGED <<impl, bodyCloses, setupVars, connVars, chanVars, textVars,
                 sendVars, recvVars, callerPc>>

\* AudioStream.Read(p) with len(p) = n
ASRead(n) ==
  IF closed
  THEN /\ ReadReturns(<< >>, EOF)
       /\ UNCHANGED <<body, bodyFault>>
  ELSE \E r \in BodyReads(n) :
         /\ ReadReturns(Take(body, r.k), r.e)
         /\ body' = Drop(body, r.k) /\ bodyFault' = BodyAfter(r)

ASReadCall ==
  /\ impl = "http" /\ callerPc = "idle"
  /\ \E n \in BufLens : ASRead(n)
  /\ UNCHANGED <<impl, streamVars, bodyCloses, setupVars, connVars, chanVars,
                 textVars, sendVars, recvVars, callerPc>>

\* AudioStream.Close
ASClose ==
  IF closed
  THEN UNCHANGED <<closed, bodyCloses>>
  ELSE /\ closed' = TRUE
       /\ bodyCloses' = bodyCloses + 1

ASCloseCall ==
  /\ impl = "http" /\ callerPc = "idle"
  /\ ASClose
  /\ Called(Ret("Close", TRUE, << >>, NoErr))
  /\ UNCHANGED <<impl, buf, err, body, bodyFault, setupVars, connVars,
                 chanVars, textVars, sendVars, recvVars, callerPc>>

\* Collect without its deferred Close
ASCollectKeepsOpen ==
  /\ \/ /\ bodyCloses = 0 /\ bodyFault # "raised"
        /\ body' = << >> /\ UNCHANGED bodyFault
        /\ Called(Ret("Collect", TRUE, body, NoErr))
     \/ /\ bodyCloses > 0 \/ bodyFault # "none"
        /\ \E k \in 0..(IF bodyCloses > 0 \/ bodyFault = "raised"
                         THEN 0 ELSE Len(body)) :
             body' = Drop(body, k)
        /\ bodyFault' = "raised"
        /\ Called(Ret("Collect", TRUE, << >>, ErrBody))
  /\ UNCHANGED <<closed, bodyCloses>>

\* AudioStream.Collect: io.Copy of the body, then the deferred Close
ASCollect ==
  /\ \/ /\ bodyCloses = 0 /\ bodyFault # "raised"
        /\ body' = << >> /\ UNCHANGED bodyFault
        /\ Called(Ret("Collect", TRUE, body, NoErr))
     \/ /\ bodyCloses > 0 \/ bodyFault # "none"
        /\ \E k \in 0..(IF bodyCloses > 0 \/ bodyFault = "raised"
                         THEN 0 ELSE Len(body)) :
             body' = Drop(body, k)
        /\ bodyFault' = "raised"
        /\ Called(Ret("Collect", TRUE, << >>, ErrBody))
  /\ ASClose

ASCollectCall ==
  /\ impl = "http" /\ callerPc = "idle"
  /\ ASCollect
  /\ UNCHANGED <<impl, buf, err, setupVars, connVars, chanVars, textVars,
                 sendVars, recvVars, callerPc>>

\* ------------------------------------------------------------- observer
\* delivered, handed, rxEnd and wire are history variables: they record
\* what the program and its environment did and never feed back into it.
Quiet == UNCHANGED histVars

\* the stream returned without the start event on the connection
StreamWebSocketSkipsStart ==
  /\ StreamWebSocket
  /\ UNCHANGED <<delivered, handed, rxEnd, wire>>

StreamWebSocketObs ==
  /\ StreamWebSocket
  /\ wire' = IF sws' = "stream" THEN Append(wire, Msg("start", 0)) ELSE wire
  /\ UNCHANGED <<delivered, handed, rxEnd>>

SendWriteObs ==
  /\ SendWrite
  /\ wire' = IF sendPc' = "select"
             THEN Append(wire, Msg("text", sendCur)) ELSE wire
  /\ UNCHANGED <<delivered, handed, rxEnd>>

\* the stop event reaches the connection when the connection is open and
\* no write on it has failed (a failed write fails every write after it)
SendStopObs ==
  /\ SendStop
  /\ wire' = IF conn = "open" /\ txFault # "write"
             THEN Append(wire, Msg("stop", 0)) ELSE wire
  /\ UNCHANGED <<delivered, handed, rxEnd>>

RecvReadObs ==
  \E f \in Inbound :
    /\ RecvRead(f)
    /\ rxEnd' = IF Terminal(f) THEN f.k ELSE rxEnd
    /\ UNCHANGED <<delivered, handed, wire>>

RecvEnqueueObs ==
  /\ RecvEnqueue
  /\ delivered' = delivered \o recvCur
  /\ UNCHANGED <<handed, rxEnd, wire>>

WSNextObs ==
  /\ WSNextCall
  /\ handed' = IF ret'.ok THEN handed \o buf' ELSE handed
  /\ UNCHANGED <<delivered, rxEnd, wire>>

WSReadObs ==
  /\ WSReadCall
  /\ handed' = handed \o ret'.data
  /\ UNCHANGED <<delivered, rxEnd, wire>>

BodyGave == Take(body, Len(body) - Len(body'))

ASNextObs ==
  /\ ASNextCall
  /\ delivered' = delivered \o BodyGave
  /\ handed' = IF ret'.ok THEN handed \o buf' ELSE handed
  /\ UNCHANGED <<rxEnd, wire>>

ASReadObs ==
  /\ ASReadCall
  /\ delivered' = delivered \o BodyGave
  /\ handed' = handed \o ret'.data
  /\ UNCHANGED <<rxEnd, wire>>

ASCollectObs ==
  /\ ASCollectCall
  /\ delivered' = delivered \o BodyGave
  /\ UNCHANGED <<handed, rxEnd, wire>>

\* ---------------------------------------------------------------- system
\* Spec: one stream object of either implementation and a caller that may
\* call Next, Read and Close in any order (and Collect on an AudioStream;
\* WebSocketAudioStream.Collect is a loop of Next, see SpecCollect).
Next ==
  \/ StreamWebSocket /\ Quiet
  \/ TextClose /\ Quiet
  \/ SendTake /\ Quiet
  \/ SendReturn /\ Quiet
  \/ SendWrite /\ Quiet
  \/ SendPublish /\ Quiet
  \/ SendStop /\ Quiet
  \/ (\E f \in Inbound : RecvRead(f)) /\ Quiet
  \/ RecvEnqueue /\ Quiet
  \/ RecvPublish /\ Quiet
  \/ RecvCloseDone /\ Quiet
  \/ RecvCloseConn /\ Quiet
  \/ RecvCloseAudio /\ Quiet
  \/ WSNextCall /\ Quiet
  \/ WSReadCall /\ Quiet
  \/ WSCloseCall /\ Quiet
  \/ ASNextCall /\ Quiet
  \/ ASReadCall /\ Quiet
  \/ ASCloseCall /\ Quiet
  \/ ASCollectCall /\ Quiet

Spec == Init /\ [][Next]_vars

\* Core: the session without its caller, without the caller's text source
\* and without the server's frames, with the histories recorded; Engine
\* adds the server's frames, Session the text source
Core ==
  \/ StreamWebSocketObs
  \/ TextClose /\ Quiet
  \/ SendReturn /\ Quiet
  \/ SendWriteObs
  \/ SendPublish /\ Quiet
  \/ SendStopObs
  \/ RecvEnqueueObs
  \/ RecvPublish /\ Quiet
  \/ RecvCloseDone /\ Quiet
  \/ RecvCloseConn /\ Quiet
  \/ RecvCloseAudio /\ Quiet

Engine ==
  \/ Core
  \/ RecvReadObs

Session ==
  \/ Engine
  \/ SendTake /\ Quiet

InitWS == Init /\ impl = "ws"
InitAS == Init /\ impl = "http"

\* SpecCollect: a duplex session whose caller calls Collect
NextCollect ==
  \/ Session
  \/ WSCollectCall /\ Quiet
  \/ WSCollectStep /\ Quiet

SpecCollect == InitWS /\ [][NextCollect]_vars

\* SpecDrain: a duplex session whose caller calls Next, and nothing else
NextDrain ==
  \/ Session
  \/ WSNextObs

SpecDrain == InitWS /\ [][NextDrain]_vars

\* SpecRead: a duplex session whose caller calls Read, and nothing else
NextRead ==
  \/ Session
  \/ WSReadObs

SpecRead == InitWS /\ [][NextRead]_vars

\* SpecAS: an AudioStream and its caller, with the histories recorded
NextAS ==
  \/ ASNextObs
  \/ ASReadObs
  \/ ASCloseCall /\ Quiet
  \/ ASCollectObs

SpecAS == InitAS /\ [][NextAS]_vars

\* SpecAbandon: a duplex session whose caller calls Close and never takes
\* a chunk, with a server that may send more audio frames than audioChan
\* holds.  Every goroutine that can take a step eventually takes one, and
\* the connection eventually gives ReadMessage something to return.
Flood == AudioCap + 1

SendSteps == (SendReturn \/ SendWrite \/ SendPublish \/ SendStop) /\ Quiet
RecvSteps ==
  (\/ \E f \in Inbound : RecvReadWithin(f, Flood)
   \/ RecvEnqueue \/ RecvPublish
   \/ RecvCloseDone \/ RecvCloseConn \/ RecvCloseAudio) /\ Quiet

NextAbandon ==
  \/ StreamWebSocket /\ Quiet
  \/ TextClose /\ Quiet
  \/ SendTake /\ Quiet
  \/ SendReturn /\ Quiet
  \/ SendWrite /\ Quiet
  \/ SendPublish /\ Quiet
  \/ SendStop /\ Quiet
  \/ (\E f \in Inbound : RecvReadWithin(f, Flood)) /\ Quiet
  \/ RecvEnqueue /\ Quiet
  \/ RecvPublish /\ Quiet
  \/ RecvCloseDone /\ Quiet
  \/ RecvCloseConn /\ Quiet
  \/ RecvCloseAudio /\ Quiet
  \/ WSCloseCall /\ Quiet

SpecAbandon ==
  /\ InitWS /\ [][NextAbandon]_vars
  /\ WF_vars(SendSteps) /\ WF_vars(RecvSteps)

\* SpecCancel: a duplex session whose caller calls Next and Read and may
\* cancel the context
NextCancel ==
  \/ Session
  \/ WSNextObs
  \/ WSReadObs
  \/ CtxCancel /\ Quiet

SpecCancel == InitWS /\ [][NextCancel]_vars

\* SpecSend: a duplex session without a caller of the stream, whose text
\* source has one fragment more
LongText == MaxText + 1

NextSend ==
  \/ Engine
  \/ SendTakeUpTo(LongText) /\ Quiet

SpecSend == InitWS /\ [][NextSend]_vars

\* SpecFlood: a duplex session whose caller takes no chunk, with a server
\* that may send more audio frames than audioChan holds; every step the
\* send goroutine can take on its own is eventually taken
RecvReadFloodObs ==
  \E f \in Inbound :
    /\ RecvReadWithin(f, Flood)
    /\ rxEnd' = IF Terminal(f) THEN f.k ELSE rxEnd
    /\ UNCHANGED <<delivered, handed, wire>>

SendStepsObs ==
  \/ SendReturn /\ Quiet
  \/ SendWriteObs
  \/ SendPublish /\ Quiet
  \/ SendStopObs

NextFlood ==
  \/ Core
  \/ SendTake /\ Quiet
  \/ RecvReadFloodObs

SpecFlood == InitWS /\ [][NextFlood]_vars /\ WF_vars(SendStepsObs)

\* SpecMutex: a duplex session whose caller calls Next, Read and Close from
\* two goroutines, so that Close may be called while Next or Read waits
NextMutex ==
  \/ StreamWebSocket /\ Quiet
  \/ TextClose /\ Quiet
  \/ SendTake /\ Quiet
  \/ SendReturn /\ Quiet
  \/ SendWrite /\ Quiet
  \/ SendPublish /\ Quiet
  \/ SendStop /\ Quiet
  \/ (\E f \in Inbound : RecvRead(f)) /\ Quiet
  \/ RecvEnqueue /\ Quiet
  \/ RecvPublish /\ Quiet
  \/ RecvCloseDone /\ Quiet
  \/ RecvCloseConn /\ Quiet
  \/ RecvCloseAudio /\ Quiet
  \/ WSNextCall /\ Quiet
  \/ WSNextBlock /\ Quiet
  \/ WSNextWake /\ Quiet
  \/ WSReadCall /\ Quiet
  \/ WSReadBlock /\ Quiet
  \/ WSReadWake /\ Quiet
  \/ WSCloseCall /\ Quiet

SpecMutex == InitWS /\ [][NextMutex]_vars

\* ================================================================ claims
RECURSIVE Flat(_)
Flat(ch) == IF ch = << >> THEN << >> ELSE Head(ch) \o Flat(Tail(ch))

\* the step is a call of the caller that returns
CallStep == ret'.tick # ret.tick
NextStep == CallStep /\ ret'.op = "Next"
ReadStep == CallStep /\ ret'.op = "Read"
\* the first call on the stream object was Collect, and it has returned
FirstCollectReturned == ret.op = "Collect" /\ ret.ok /\ ret.tick = 1
RecvFailures == {"read_error", "decode_error", "finish_error"}

\* C1: when the server sends audio frames and then Finish{reason:"stop"},
\* and no write of the send path fails on the open connection, Collect
\* returns the concatenation of the audio in receipt order and a nil error.
C1_CollectAfterStop ==
  (FirstCollectReturned /\ rxEnd = "finish_stop" /\ txFault = "none")
    => (ret.e = NoErr /\ ret.data = delivered)

\* C2: when the first inbound event is Finish{reason:"error"}, Collect
\* returns no bytes and the error "stream finished with error".
C2_CollectAfterErrorFinish ==
  (FirstCollectReturned /\ rxEnd = "finish_error" /\ frames = 0
     /\ txFault = "none")
    => (ret.data = << >> /\ ret.e = ErrFinish)

\* C3: when the receive goroutine ended on a read failure, a decode failure
\* or Finish{reason:"error"}, a caller that called Next until it returned
\* false finds Err() non-nil.
C3_DrainSeesFailure ==
  (ret.op = "Next" /\ ~ret.ok /\ rxEnd \in RecvFailures) => err # NoErr

\* C4: with a caller that only calls Read, every Read takes its bytes from
\* the remainder of the current chunk when there is one and takes a chunk
\* from audioChan only when there is none; the bytes returned so far,
\* followed by the unread remainder and the queued chunks, are always the
\* delivered chunks in order (nothing lost, nothing twice), and when Read
\* returns io.EOF the bytes returned are all the delivered bytes.
C4_ReadsReproduceChunks ==
  [][/\ handed' \o buf' \o Flat(audioChan') = delivered'
     /\ (ReadStep /\ Len(buf) > 0)
          => (audioChan' = audioChan /\ buf = ret'.data \o buf')
     /\ (ReadStep /\ ret'.e = EOF) => handed' = delivered']_vars

\* two chunks were read to the end, one of them by short reads
C4_Witness ==
  /\ ret.op = "Read" /\ ret.e = EOF
  /\ Len(handed) >= 3 /\ handed = delivered

\* C5: once Close has been called, a call of Next is never blocked, returns
\* false, takes nothing from audioChan or errChan and does not read the
\* body.
C5_NextAfterClose ==
  [][("closed" \in prior)
       => /\ (HasStream /\ callerPc = "idle")
               => ENABLED (WSNextCall \/ ASNextCall)
          /\ NextStep
               => (~ret'.ok /\ UNCHANGED <<audioChan, errChan, body, buf>>)
    ]_vars

\* Next was called after Close with a chunk waiting on audioChan
C5_Witness ==
  /\ impl = "ws" /\ ret.op = "Next" /\ "closed" \in prior
  /\ Len(audioChan) > 0

\* C6: when StreamWebSocket returns an error, no channel was made, neither
\* goroutine runs, a connection that was opened has been closed once, and
\* the caller holds no stream: nothing was written and no call was made.
C6_FailedStart ==
  (sws = "error")
    => /\ ~chans /\ sendPc = "off" /\ recvPc = "off"
       /\ audioChan = << >> /\ errChan = << >> /\ wire = << >>
       /\ conn # "open"
       /\ connCloses = (IF conn = "closed" THEN 1 ELSE 0)
       /\ ret = NoRet /\ handed = << >>

\* the start event could not be sent on the opened connection
C6_Witness == sws = "error" /\ conn = "closed"

\* C7: once a Next has returned false or Close has been called, every Next
\* returns false and no Read returns bytes it took from the source
\* (audioChan, the body) in that call.
C7_TerminalStays ==
  [][(prior # {} /\ CallStep)
       => /\ (ret'.op = "Next" => ~ret'.ok)
          /\ ~(/\ ret'.op = "Read" /\ Len(ret'.data) > 0
                /\ (audioChan' # audioChan \/ body' # body))]_vars

\* C8 as claimed: a successful Next makes Bytes() the chunk it took from
\* the source, and only a successful Next changes Bytes().
Produced == IF impl = "ws" THEN Head(audioChan) ELSE BodyGave
NextOk == NextStep /\ ret'.ok

C8_BytesUntilNextOk ==
  [][/\ NextOk => buf' = Produced
     /\ buf' # buf => NextOk]_vars

\* C8 amended: a successful Next makes Bytes() the chunk it took from the
\* source; Bytes() then changes only by a successful Next, by a Next of an
\* AudioStream that read the body and returned false, or by a Read of a
\* WebSocketAudioStream.  A Next of a WebSocketAudioStream that returns
\* false, and a Next of an AudioStream that returns false without reading,
\* leave it as it is.
ASNextReads == impl = "http" /\ NextStep /\ ~closed /\ err = NoErr

C8_BytesAmended ==
  [][/\ NextOk => buf' = Produced
     /\ buf' # buf
          => \/ NextOk
             \/ ASNextReads /\ ~ret'.ok
             \/ impl = "ws" /\ ReadStep
     /\ (NextStep /\ ~ret'.ok /\ ~ASNextReads) => buf' = buf]_vars

\* a Next returned false and Bytes() still is the chunk of the Next before
C8_Witness ==
  /\ impl = "ws" /\ ret.op = "Next" /\ ~ret.ok /\ "closed" \notin prior
  /\ Len(buf) > 0

\* C9: Read does not return io.EOF while a published error waits on
\* errChan.
C9_NoEOFOnFailure ==
  [][(ReadStep /\ ret'.e = EOF) => errChan = << >>]_vars

\* C10: once Close has been called on an AudioStream, the body has been
\* closed exactly once.
C10_BodyClosedOnce ==
  ("closed" \in prior) => bodyCloses = 1

\* C11: on an AudioStream whose body reads never fail and which was never
\* closed by the caller, once Next has returned false the stream is
\* exhausted (closed set, Err() nil, the body read to its end) and the
\* bytes handed to the caller are all the bytes the body's reads returned.
C11_DrainYieldsBody ==
  (/\ impl = "http" /\ ret.op = "Next" /\ ~ret.ok
   /\ bodyFault = "none" /\ bodyCloses = 0 /\ "closed" \notin prior)
    => (closed /\ err = NoErr /\ body = << >> /\ handed = delivered)

\* C12: Collect on an AudioStream leaves the stream closed whether it
\* succeeds or fails; when it succeeds it returns the bytes the body had not
\* returned yet and leaves none, when it fails it returns no bytes; and a
\* closed AudioStream stays closed, its Next returning false and its Read
\* returning io.EOF with no bytes.
CollectStep == CallStep /\ ret'.op = "Collect"

C12_CollectClosesStream ==
  [][/\ (impl = "http" /\ CollectStep)
          => /\ closed'
             /\ ret'.e = NoErr => (ret'.data = body /\ body' = << >>)
             /\ ret'.e # NoErr => ret'.data = << >>
     /\ (impl = "http" /\ closed)
          => /\ closed'
             /\ NextStep => (~ret'.ok /\ body' = body)
             /\ ReadStep => (ret'.e = EOF /\ ret'.data = << >>
                               /\ body' = body)]_vars

\* part of the body was handed over by Next, Collect returned the rest
C12_Witness ==
  /\ impl = "http" /\ ret.op = "Collect" /\ ret.e = NoErr /\ closed
  /\ handed # << >> /\ ret.data # << >>
  /\ handed \o ret.data = delivered

\* C13: after Close on a duplex stream the connection is eventually closed
\* and both goroutines eventually return, with a caller that takes no
\* chunk and whatever the server sends.
C13_CloseReleasesSession ==
  [](("closed" \in prior)
       => <>(conn = "closed" /\ sendPc = "done" /\ recvPc = "done"))

\* a call of Next, and a call of Read, would return in the current state
\* without waiting for a goroutine or for the server
CallsReturn == ENABLED WSNextCall /\ ENABLED WSReadCall

\* C14: once the context is cancelled, no call of Next or Read on the
\* returned stream stays blocked.
C14_CancelUnblocks ==
  ("cancelled" \in prior /\ HasStream /\ callerPc = "idle") => CallsReturn

\* C15: once a write of the send goroutine has failed and the goroutine
\* has published the error, or the
\* receive goroutine has returned, no call of Next or Read stays blocked
\* waiting for the server: with the receive goroutine inside ReadMessage
\* or gone, a call returns in the current state.
SendFailed == sendPc \in {"stop", "done"} /\ txFault = "write"

C15_NoCallStuckAfterFailure ==
  (/\ impl = "ws" /\ HasStream /\ callerPc = "idle"
   /\ (SendFailed /\ recvPc = "read") \/ recvPc = "done")
    => CallsReturn

\* C16: the connection is closed at most once; once the stream is returned
\* only the receive goroutine's deferred conn.Close() closes it; and when
\* the receive goroutine is past that call the connection has been closed
\* exactly once.
C16_ConnClosedOnce ==
  [][/\ connCloses' <= 1
     /\ (sws = "stream" /\ connCloses' # connCloses)
          => (recvPc = "closeConn" /\ recvPc' = "closeAudio")
     /\ (recvPc' \in {"closeAudio", "done"})
          => (conn' = "closed" /\ connCloses' = 1)]_vars

\* both goroutines have returned, the send goroutine after a failed write
C16_Witness ==
  /\ recvPc = "done" /\ sendPc = "done" /\ txFault = "write"
  /\ conn = "closed" /\ connCloses = 1

Stops(w) == Cardinality({i \in DOMAIN w : w[i].ev = "stop"})
Texts == SelectSeq(wire, LAMBDA m : m.ev = "text")
StopWritten == Stops(wire') = Stops(wire) + 1
\* the send goroutine's deferred function runs
SendExit == sendPc = "stop" /\ sendPc' = "done"

\* C17 as claimed: a stop event is on the connection only when the caller
\* has closed textChan (no encode or write of the send goroutine failing).
C17_StopOnlyAfterExhaustion ==
  (Stops(wire) > 0 /\ txFault = "none") => textChan = "closed"

\* C17 amended: a stop event is written only by the deferred function of
\* the send goroutine, and the goroutine returns only when textChan is
\* closed, when doneChan is closed, or when a text event could not be
\* encoded or written; while none of these has happened no stop event is
\* on the connection.
C17_StopOnlyAtExit ==
  [][/\ Stops(wire') # Stops(wire)
          => /\ SendExit /\ StopWritten
             /\ textChan = "closed" \/ doneClosed \/ txFault = "marshal"
     /\ (textChan' = "open" /\ ~doneClosed' /\ txFault' = "none")
          => Stops(wire') = 0]_vars

\* the stop event was written with textChan open, the send goroutine having
\* returned on doneChan before the receive goroutine closed the connection
C17_Witness ==
  /\ Stops(wire) = 1 /\ textChan = "open" /\ txFault = "none" /\ doneClosed

C19_StartFirstOnce ==
  /\ (sws = "stream")
       => /\ Len(wire) >= 1 /\ wire[1] = Msg("start", 0)
          /\ \A i \in 2..Len(wire) : wire[i].ev # "start"
  /\ (sws # "stream")
       => (wire = << >> /\ sendPc = "off" /\ recvPc = "off")

\* the start event, then a text event, then the stop event
C19_Witness ==
  /\ Len(wire) = 3 /\ wire[1].ev = "start" /\ wire[2].ev = "text"
  /\ wire[3].ev = "stop"

\* C20: the text events on the connection are the first fragments taken
\* from textChan, one event per fragment and in their order; the fragment
\* taken last is the only one that may be missing; and when the send
\* goroutine has returned because textChan was closed (doneChan open, no
\* failure) every fragment taken is on the connection.
C20_TextsArePrefix ==
  /\ \A i \in DOMAIN Texts : Texts[i] = Msg("text", i)
  /\ Len(Texts) <= textNext - 1
  /\ Len(Texts) >= textNext - 2
  /\ (/\ sendPc \in {"stop", "done"} /\ textChan = "closed"
      /\ txFault = "none" /\ ~doneClosed)
       => Len(Texts) = textNext - 1

\* two fragments were written in their order before textChan was closed
C20_Witness ==
  /\ Len(Texts) = 2 /\ textNext = 3 /\ textChan = "closed"
  /\ sendPc = "done" /\ ~doneClosed

\* a decoded frame whose event is neither "audio" nor "finish"
OtherFrame == [k |-> "other", p |-> << >>]

\* C21: when the receive goroutine reads a frame whose event is neither
\* "audio" nor "finish" it goes on to publish a decode error and return.
C21_UnknownIsFailure ==
  [][RecvRead(OtherFrame)
       => (recvPc' = "pub" /\ recvCur' = <<ErrDecode>>)]_vars

\* C22: when the receive loop ended on a close error with code 1000 or
\* 1005 (no write of the send goroutine failing on the open connection), a
\* caller that called Next until it returned false has been handed every
\* chunk put on audioChan and finds Err() nil.
C22_NormalCloseIsClean ==
  (/\ ret.op = "Next" /\ ~ret.ok
   /\ rxEnd = "close_normal" /\ txFault = "none")
    => (err = NoErr /\ handed = delivered)

\* C24: when a text event could not be written and the send goroutine has
\* published the failure, the first Next that returns false leaves Err()
\* non-nil.
C24_SendFailureSurfaces ==
  [][(NextStep /\ ~ret'.ok /\ "ended" \notin prior /\ SendFailed)
       => err' # NoErr]_vars

\* C25: an audio frame with an empty payload leaves the channels as they
\* are and the receive goroutine reading; an audio frame with a payload
\* makes the goroutine send that payload, and the send puts exactly that
\* one chunk at the end of audioChan; nothing else adds to audioChan.
C25_AudioFrameEffect ==
  [][/\ \A f \in Inbound :
          (f.k = "audio" /\ RecvRead(f))
            => /\ UNCHANGED chanVars
               /\ IF f.p = << >>
                  THEN recvPc' = "read" /\ recvCur' = << >>
                  ELSE recvPc' = "enq" /\ recvCur' = f.p
     /\ (recvPc = "enq" /\ recvPc' # "enq")
          => (audioChan' = Append(audioChan, recvCur) /\ recvPc' = "read"
              /\ recvCur # << >>)
     /\ Len(audioChan') > Len(audioChan) => recvPc = "enq"]_vars

\* the first frame delivered no chunk, the second one did
C25_Witness ==
  /\ frames = 2 /\ recvPc = "read" /\ audioChan = <<<<20, 21>>>>
  /\ delivered = <<20, 21>> /\ errChan = << >>

\* C26: every write of the send goroutine, of a text event or of the stop
\* event, is made on a connection that has not been closed.
C26_WritesBeforeClose ==
  [][((sendPc = "write" /\ sendPc' # "write") \/ SendExit)
       => conn = "open"]_vars

\* C29: a Read that follows a successful Next returns no bytes unless it
\* took a chunk from audioChan: it never returns bytes of the chunk that
\* Next made Bytes().
C29_ReadSkipsNextChunk ==
  [][(impl = "ws" /\ ReadStep /\ ret.op = "Next" /\ ret.ok)
       => ~(Len(ret'.data) > 0 /\ audioChan' = audioChan)]_vars

\* C30: once Err() is non-nil on a duplex stream it keeps its value (no
\* encode of a text event failing).
C30_ErrWriteOnce ==
  [][(impl = "ws" /\ err # NoErr /\ txFault # "marshal")
       => err' = err]_vars

\* the receive goroutine waits to send a chunk to the full audioChan
Blocked == recvPc = "enq" /\ Len(audioChan) = AudioCap

\* C23: while the receive goroutine waits on the full audioChan, a text
\* event the send goroutine has to write gets written or fails on its own,
\* and once textChan is closed the send goroutine returns; if no encode or
\* write failed, every fragment taken and then the stop event are on the
\* connection.  The receive goroutine is still waiting then.
C23_SendIgnoresBackpressure ==
  /\ (Blocked /\ sendPc = "write") ~> (Blocked /\ sendPc # "write")
  /\ (Blocked /\ textChan = "closed")
       ~> (/\ Blocked /\ sendPc = "done"
           /\ txFault = "none"
                => (/\ Len(Texts) = textNext - 1
                    /\ Stops(wire) = 1 /\ wire[Len(wire)].ev = "stop"))

\* every fragment and the stop event were written with audioChan full
C23_Witness ==
  /\ Blocked /\ sendPc = "done" /\ Len(Texts) = MaxText
  /\ Stops(wire) = 1 /\ frames = Flood

\* C27: Close on a returned duplex stream can return in every state,
\* whatever another goroutine of the caller is doing.
C27_CloseNeverWaits ==
  (impl = "ws" /\ HasStream) => ENABLED WSCloseCall

\* C28: once the receive goroutine has closed doneChan the send goroutine
\* eventually returns.
C28_SendEndsWithSession == doneClosed ~> (sendPc = "done")

\* both goroutines returned, textChan neither used nor closed
C28_Witness ==
  /\ recvPc = "done" /\ sendPc = "done"
  /\ textChan = "open" /\ textNext = 1

====
